---- MODULE Spec2Model ----
(***************************************************************************)
(* A model of gitkit's SSH front end: the git command parser               *)
(* (git_command.go) and the session command pipeline of ssh.go (handshake  *)
(* callback, channel request loop, exec handler and process bridge) and of  *)
(* the server lifecycle (Listen, Serve, Stop).                             *)
(*                                                                         *)
(* Strings are sequences of one-character strings, so that the string      *)
(* functions of the code (Index, TrimLeft, Replace, CutSuffix, the regular *)
(* expression) are computed character by character.                        *)
(***************************************************************************)
EXTENDS Integers, Sequences, FiniteSets, TLC

VARIABLES
    cmd,        \* the string handed to ParseGitCommand
    result,     \* <<what ParseGitCommand returned for it>>, <<>> before the call
    cfg,        \* SSH.config and which of the SSH callback fields are set
    conns,      \* per accepted connection: the handshake and its session context
    chans,      \* per channel: the request loop, its log and its subprocess
    repos,      \* the repositories that exist under Config.Dir
    environ,    \* the environment of the server process (os.Environ)
    srv,        \* SSH.listener, the listeners made, the Serve and Stop calls
    budget      \* what the clients may still do (the model's bounds)

parseVars == <<cmd, result>>

serverVars == <<cfg, conns, chans, repos, environ, srv, budget>>

vars == <<cmd, result, cfg, conns, chans, repos, environ, srv, budget>>

----------------------------------------------------------------------------
(* Bounds *)

\* the longest path argument drawn for the parser, counted in path tokens
MaxPathTokens == 3

\* connections the listener accepts while the handshake is followed
MaxConns == 2

\* connections the listener accepts while the sessions are followed
MaxSessionConns == 1

\* channels the clients open, over all connections
MaxChans == 2

\* channel requests the clients send, over all channels
MaxReqs == 2

\* public-key authentication attempts the model follows in one handshake
MaxAuthTries == 2

\* chunks a subprocess writes to each of its output streams
MaxOutput == 1

\* chunks of data a client sends on its channels for the subprocess to read
MaxInput == 2

\* calls of Listen, Serve and Stop the embedding program makes
MaxCalls == 5

----------------------------------------------------------------------------
(* Strings (package strings of the Go standard library, as the code uses it) *)

\* strings.HasPrefix
HasPrefix(s, p) == Len(s) >= Len(p) /\ SubSeq(s, 1, Len(p)) = p

\* strings.HasSuffix
HasSuffix(s, p) == Len(s) >= Len(p) /\ SubSeq(s, Len(s) - Len(p) + 1, Len(s)) = p

\* strings.Index, 1-based; 0 when sub does not occur (Go: -1)
Index(s, sub) ==
    LET hits == {i \in 1..(Len(s) - Len(sub) + 1) : SubSeq(s, i, i + Len(sub) - 1) = sub}
    IN  IF hits = {} THEN 0 ELSE CHOOSE i \in hits : \A j \in hits : i <= j

\* strings.CutPrefix (the returned string only)
CutPrefix(s, p) == IF HasPrefix(s, p) THEN SubSeq(s, Len(p) + 1, Len(s)) ELSE s

\* strings.CutSuffix (the returned string only)
CutSuffix(s, p) == IF HasSuffix(s, p) THEN SubSeq(s, 1, Len(s) - Len(p)) ELSE s

\* strings.Replace(s, old, "", 1): the first occurrence of old is deleted
DeleteFirst(s, old) ==
    LET i == Index(s, old)
    IN  IF i = 0 THEN s
        ELSE SubSeq(s, 1, i - 1) \o SubSeq(s, i + Len(old), Len(s))

\* strings.Replace(s, c, "", -1) for a one-character c: every c is deleted
DeleteAll(s, c) == SelectSeq(s, LAMBDA x : x # c)

\* strings.TrimLeft(s, cutset): the leading characters that are in cutset go
RECURSIVE TrimLeft(_, _)
TrimLeft(s, cutset) ==
    IF s # <<>> /\ Head(s) \in cutset THEN TrimLeft(Tail(s), cutset) ELSE s

----------------------------------------------------------------------------
(* git_command.go *)

Git == <<"g", "i", "t">>
UploadPack == <<"u", "p", "l", "o", "a", "d", "-", "p", "a", "c", "k">>
UploadArchive == <<"u", "p", "l", "o", "a", "d", "-", "a", "r", "c", "h", "i", "v", "e">>
ReceivePack == <<"r", "e", "c", "e", "i", "v", "e", "-", "p", "a", "c", "k">>
DotGit == <<".", "g", "i", "t">>
Slash == <<"/">>

\* the three alternatives of gitCommandRegex, after "git" and the separator
VerbRests == {UploadPack, UploadArchive, ReceivePack}

\* regexp class \s of Go (RE2): [\t\n\f\r ]
WhiteSpace == {"\t", "\n", "\f", "\r", " "}

\* the character class [-|\s] of gitCommandRegex: a hyphen, a vertical bar, \s
SepClass == {"-", "|"} \cup WhiteSpace

\* cmd matches ^git[-|\s]<rest> '(.*)'$ : anchored at both ends, "." is any
\* character but a line feed, "$" is the end of the text
RegexMatches(s, rest) ==
    LET n == Len(rest)
    IN  /\ Len(s) >= n + 7
        /\ SubSeq(s, 1, 3) = Git
        /\ s[4] \in SepClass
        /\ SubSeq(s, 5, n + 4) = rest
        /\ s[n + 5] = " "
        /\ s[n + 6] = "'"
        /\ s[Len(s)] = "'"
        /\ \A i \in (n + 7)..(Len(s) - 1) : s[i] # "\n"

\* gitCommandRegex.FindAllStringSubmatch(cmd, 1): the submatches <<verb, path>>
\* of the match, or <<>> when there is none
gitCommandRegex(s) ==
    IF \E rest \in VerbRests : RegexMatches(s, rest)
    THEN LET rest == CHOOSE r \in VerbRests : RegexMatches(s, r)
         IN  <<SubSeq(s, 1, Len(rest) + 4), SubSeq(s, Len(rest) + 7, Len(s) - 1)>>
    ELSE <<>>

\* a mutant: the suffix is left on
parseRepoName_KeepSuffix(s) == DeleteFirst(s, Slash)

\* parseRepoName of git_command.go:
\*   strings.CutSuffix(strings.Replace(s, "/", "", 1), ".git")
parseRepoName(s) == CutSuffix(DeleteFirst(s, Slash), DotGit)

\* parseRepoName of the second copy of the parser (unnamed/part_000):
\*   strings.CutPrefix(s, "/") then strings.CutSuffix(_, ".git")
parseRepoNameCutPrefix(s) == CutSuffix(CutPrefix(s, Slash), DotGit)

\* the error return of ParseGitCommand: no GitCommand
InvalidGitCommand == [ok |-> FALSE]

ParseGitCommand(s) ==
    LET matches == gitCommandRegex(s)
    IN  IF matches = <<>> THEN InvalidGitCommand
        ELSE [ok |-> TRUE, Original |-> s, Command |-> matches[1],
              Repo |-> parseRepoName(matches[2])]

----------------------------------------------------------------------------
(* ssh.go: configuration *)

Users == {"git", "bob"}

\* the Ids of the PublicKeys the lookup collaborator knows
KeyIds == {"k1", "k2"}

\* PublicKey.Name of the key with that Id
KeyName(id) == IF id = "k1" THEN "alice" ELSE "carol"

\* Config (Auth, GitUser, AutoCreate) and whether the embedding program set
\* SSH.PreLoginFunc before setup. Without Auth no callback is installed and
\* neither GitUser nor PreLoginFunc is ever read, so one such configuration
\* (with a required user name) stands for them all
Configs ==
    [Auth : {TRUE}, GitUser : {"", "git"}, AutoCreate : BOOLEAN, PreLogin : BOOLEAN]
    \cup [Auth : {FALSE}, GitUser : {"git"}, AutoCreate : BOOLEAN, PreLogin : {FALSE}]

----------------------------------------------------------------------------
(* ssh.go: the handshake *)

Conns == 1..MaxConns

\* a nil *ssh.Permissions
NoPermissions == [set |-> FALSE, keyID |-> "", keyName |-> "", sshUser |-> ""]

\* the zero PublicKey and user Serve starts from
ZeroContext == [pk |-> [Id |-> "", Name |-> ""], user |-> ""]

\* a mutant: the user name is not compared
defaultPreLoginFunc_NoCheck(c, u) == "nil"

\* SSH.defaultPreLoginFunc: the error it returns, "nil" for none
defaultPreLoginFunc(c, u) ==
    IF c.Auth /\ c.GitUser # "" /\ u # c.GitUser THEN "ErrIncorrectUser" ELSE "nil"

\* s.PreLoginFunc as setup leaves it: the function the program supplied (which
\* answers supplied) or, when it supplied none, defaultPreLoginFunc
PreLoginFunc(c, u, supplied) ==
    IF c.PreLogin THEN supplied ELSE defaultPreLoginFunc(c, u)

\* a mutant: the key is looked up before the answer of the pre-login check
\* is looked at
PublicKeyCallback_LookupAnyway(c, u, supplied, pkey) ==
    LET err == PreLoginFunc(c, u, supplied)
        asked == <<<<"prelogin", u, err>>, <<"lookup", u, pkey>>>>
    IN  IF err # "nil" \/ pkey \in {"err", "nil"}
        THEN [calls |-> asked \o <<<<"return", u, "err">>>>, perms |-> NoPermissions]
        ELSE [calls |-> asked \o <<<<"return", u, "ok">>>>,
              perms |-> [set |-> TRUE, keyID |-> pkey, keyName |-> KeyName(pkey),
                         sshUser |-> u]]

\* a mutant: a nil key with a nil error is let through
PublicKeyCallback_NilKeyPasses(c, u, supplied, pkey) ==
    LET err == PreLoginFunc(c, u, supplied)
    IN  IF err # "nil"
        THEN [calls |-> <<<<"prelogin", u, err>>, <<"return", u, "err">>>>,
              perms |-> NoPermissions]
        ELSE IF pkey = "err"
        THEN [calls |-> <<<<"prelogin", u, "nil">>, <<"lookup", u, pkey>>,
                          <<"return", u, "err">>>>,
              perms |-> NoPermissions]
        ELSE [calls |-> <<<<"prelogin", u, "nil">>, <<"lookup", u, pkey>>,
                          <<"return", u, "ok">>>>,
              perms |-> [set |-> TRUE, keyID |-> "", keyName |-> "", sshUser |-> u]]

\* config.PublicKeyCallback of setup, for the user name u: the collaborator
\* calls it makes in order, and the permissions it returns. supplied is what a
\* supplied PreLoginFunc answers; pkey is what PublicKeyLookupFunc answers: "err"
\* (an error), "nil" (no key, no error) or the Id of the key
PublicKeyCallback(c, u, supplied, pkey) ==
    LET err == PreLoginFunc(c, u, supplied)
    IN  IF err # "nil"
        THEN [calls |-> <<<<"prelogin", u, err>>, <<"return", u, "err">>>>,
              perms |-> NoPermissions]
        ELSE IF pkey \in {"err", "nil"}
        THEN [calls |-> <<<<"prelogin", u, "nil">>, <<"lookup", u, pkey>>,
                          <<"return", u, "err">>>>,
              perms |-> NoPermissions]
        ELSE [calls |-> <<<<"prelogin", u, "nil">>, <<"lookup", u, pkey>>,
                          <<"return", u, "ok">>>>,
              perms |-> [set |-> TRUE, keyID |-> pkey, keyName |-> KeyName(pkey),
                         sshUser |-> u]]

\* ssh.NewServerConn under the ServerConfig of setup: with NoClientAuth the
\* handshake needs no callback; otherwise it succeeds only on permissions that
\* the PublicKeyCallback returned with a nil error
HandshakeAccepts(c, perms) == ~c.Auth \/ perms.set

\* a mutant: the name of the key is bound where its Id belongs
SessionContext_NameForId(perms) ==
    IF perms.set
    THEN [pk |-> [Id |-> perms.keyName, Name |-> perms.keyName], user |-> perms.sshUser]
    ELSE ZeroContext

\* the context Serve builds from sConn.Permissions
SessionContext(perms) ==
    IF perms.set
    THEN [pk |-> [Id |-> perms.keyID, Name |-> perms.keyName], user |-> perms.sshUser]
    ELSE ZeroContext

NewConn ==
    [st |-> "none", tries |-> 0, user |-> "", perms |-> NoPermissions, calls |-> <<>>,
     ctx |-> ZeroContext]

\* Serve: s.listener.Accept() returns the next connection; its handshake
\* starts on a goroutine of its own
Accept(c) ==
    /\ conns[c].st = "none"
    /\ \A d \in Conns : d < c => conns[d].st # "none"
    /\ budget.conns > 0
    /\ conns' = [conns EXCEPT ![c].st = "handshaking"]
    /\ budget' = [budget EXCEPT !.conns = @ - 1]
    /\ UNCHANGED <<cfg, chans, repos, parseVars, environ, srv>>

\* the client offers a public key under the user name u: ssh.NewServerConn
\* calls config.PublicKeyCallback
AuthAttempt(c, u, supplied, pkey) ==
    /\ conns[c].st = "handshaking"
    /\ cfg.Auth
    /\ conns[c].tries < MaxAuthTries
    /\ LET r == PublicKeyCallback(cfg, u, supplied, pkey)
       IN  conns' = [conns EXCEPT ![c].user = u,
                                  ![c].perms = r.perms,
                                  ![c].calls = r.calls,
                                  ![c].tries = @ + 1]
    /\ UNCHANGED <<cfg, chans, repos, budget, parseVars, environ, srv>>

\* ssh.NewServerConn returns without error: Serve builds the session context
\* and starts handleConnection. Without authentication the client's user name
\* u is whatever it sent
HandshakeDone(c, u) ==
    /\ conns[c].st = "handshaking"
    /\ HandshakeAccepts(cfg, conns[c].perms)
    /\ cfg.Auth => u = conns[c].user
    /\ conns' = [conns EXCEPT ![c].st = "established",
                              ![c].tries = 0,
                              ![c].user = u,
                              ![c].ctx = SessionContext(conns[c].perms)]
    /\ UNCHANGED <<cfg, chans, repos, budget, parseVars, environ, srv>>

\* ssh.NewServerConn returns an error (the client gave up, went away or ran
\* out of keys): the goroutine logs it and returns
HandshakeFail(c) ==
    /\ conns[c].st = "handshaking"
    /\ conns' = [conns EXCEPT ![c] = [NewConn EXCEPT !.st = "failed"]]
    /\ UNCHANGED <<cfg, chans, repos, budget, parseVars, environ, srv>>

----------------------------------------------------------------------------
(* ssh.go: channel requests *)

Chans == 1..MaxChans

\* the byte 0 and the byte 23 (the length of "git-upload-pack 'a.git'"), as
\* they stand in the length prefix of an exec payload
NUL == "x00"
ETB == "x17"

\* exec payloads as the SSH library delivers them: a 4-byte length, the command
PayloadUploadA ==
    <<NUL, NUL, NUL, ETB>> \o Git \o <<"-">> \o UploadPack
        \o <<" ", "'", "a", ".", "g", "i", "t", "'">>
PayloadLs == <<NUL, NUL, NUL, ETB, "l", "s">>

ExecPayloads == {PayloadUploadA, PayloadLs}

\* env payloads: length and name, length and value; 4 is the length of "LANG"
\* and 11 (a vertical tab) the length of "en_US.UTF-8"
EOT == "x04"
VT == "x0b"
PayloadEnvLang ==
    <<NUL, NUL, NUL, EOT, "L", "A", "N", "G", NUL, NUL, NUL, VT,
      "e", "n", "_", "U", "S", ".", "U", "T", "F", "-", "8">>
\* exec payloads with text before the verb: a command and a space, and a word
\* that ends in "git"; 25 and 26 (hex 19 and 1a) are their lengths
PayloadPrefixed ==
    <<NUL, NUL, NUL, "x19", "x", " ">> \o Git \o <<"-">> \o UploadPack
        \o <<" ", "'", "a", ".", "g", "i", "t", "'">>
PayloadLegit ==
    <<NUL, NUL, NUL, "x1a", "l", "e", "g", "i", "t", "-">> \o ReceivePack
        \o <<" ", "'", "a", ".", "g", "i", "t", "'">>

ExecPayloadsWide == ExecPayloads \cup {PayloadPrefixed, PayloadLegit}

\* env payloads handleEnvRequest refuses: a name and no value, a value and no name
PayloadEnvNoValue == <<NUL, NUL, NUL, EOT, "L", "A", "N", "G">>
PayloadEnvNoKey ==
    <<NUL, NUL, NUL, NUL, NUL, NUL, NUL, VT,
      "e", "n", "_", "U", "S", ".", "U", "T", "F", "-", "8">>

EnvPayloadsWide == {PayloadEnvLang, PayloadEnvNoValue, PayloadEnvNoKey}

RequestsWide ==
    {[type |-> "exec", payload |-> pl] : pl \in ExecPayloadsWide}
    \cup {[type |-> "env", payload |-> pl] : pl \in EnvPayloadsWide}
    \cup {[type |-> "shell", payload |-> <<>>], [type |-> "subsystem", payload |-> <<>>]}

Requests ==
    {[type |-> "exec", payload |-> pl] : pl \in ExecPayloads}
    \cup {[type |-> "env", payload |-> pl] : pl \in {PayloadEnvLang}}
    \cup {[type |-> "shell", payload |-> <<>>], [type |-> "subsystem", payload |-> <<>>]}

\* cleanCommand: the payload from its first "git" on
cleanCommand(s) ==
    LET i == Index(s, Git)
    IN  IF i = 0 THEN s ELSE SubSeq(s, i, Len(s))

\* what a write on the channel puts on the wire: nothing once the channel has
\* sent or received its close (the library's writePacket returns io.EOF)
Sent(closed, event) == IF closed THEN <<>> ELSE <<event>>

\* ch.Close(): the close message, once
Close(closed) == Sent(closed, <<"close", "">>)

\* the first event of a request's log: the type of the request, and whether
\* its channel was still open when handleRequest took it
Begin(type, closed) == <<type, IF closed THEN "closed" ELSE "open">>

\* the fields strings.Split(s, sep) cuts s into, for a one-character sep
RECURSIVE Split(_, _)
Split(s, sep) ==
    LET i == Index(s, <<sep>>)
    IN  IF i = 0 THEN <<s>>
        ELSE <<SubSeq(s, 1, i - 1)>> \o Split(SubSeq(s, i + 1, Len(s)), sep)

\* a mutant: the variable is set in the server's own environment
execCommandBytes_Setenv(env, name, value, run) ==
    [err |-> run, environ |-> [env EXCEPT !.LANG = value]]

\* execCommandBytes("env", name=value): the env command runs as a child with
\* the server's environment and the assignment on top, its output is dropped;
\* the error of cmd.Run() (run) and the server's environment afterwards
execCommandBytes(env, name, value, run) == [err |-> run, environ |-> env]

\* handleEnvRequest in the environment env: its error ("invalid" for a payload
\* it refuses, else what the isolated env command returned: "nil" or "err")
\* and the server's environment afterwards
handleEnvRequest(env, payload, run) ==
    LET args == Split(DeleteAll(payload, NUL), VT)
    IN  IF Len(args) # 2 THEN [err |-> "invalid", environ |-> env]
        ELSE IF TrimLeft(args[1], {EOT}) = <<>> THEN [err |-> "invalid", environ |-> env]
        ELSE execCommandBytes(env, TrimLeft(args[1], {EOT}), args[2], run)

\* the command name handleExecRequest hands to ParseGitCommand (the payloads
\* followed here keep a character after their NULs, so the [1:] is in range)
execCommandName(payload) ==
    LET cmdName == TrimLeft(payload, {"'", "(", ")"})
    IN  IF HasPrefix(cmdName, <<NUL>>) THEN Tail(DeleteAll(cmdName, NUL)) ELSE cmdName

\* repoExists(filepath.Join(s.config.Dir, repo))
repoExists(existing, repo) == repo \in existing

\* a mutant: the request is acknowledged before anything is checked
handleExecRequest_ReplyFirst(c, ctx, existing, payload, closed, authorise, init, start) ==
    LET gitcmd == ParseGitCommand(execCommandName(payload))
    IN  [events |-> Sent(closed, <<"reply", "">>)
                    \o (IF gitcmd.ok /\ authorise # "err" /\ start = "nil"
                        THEN <<<<"spawn", ctx.pk.Id>>>> ELSE <<>>),
         started |-> gitcmd.ok /\ authorise # "err" /\ start = "nil",
         created |-> {}]

\* a mutant: the answer of AuthoriseOperationFunc is dropped
handleExecRequest_IgnoreDenial(c, ctx, existing, payload, closed, authorise, init, start) ==
    LET gitcmd == ParseGitCommand(execCommandName(payload))
    IN  IF ~gitcmd.ok
        THEN [events |-> Sent(closed, <<"invalid", "">>), started |-> FALSE, created |-> {}]
        ELSE [events |-> (IF authorise # "unset" THEN <<<<"authorise", authorise>>>> ELSE <<>>)
                         \o <<<<"spawn", ctx.pk.Id>>>> \o Sent(closed, <<"reply", "">>),
              started |-> TRUE, created |-> {}]

\* a mutant: a missing repository is initialized whatever Config.AutoCreate says
handleExecRequest_InitAnyway(c, ctx, existing, payload, closed, authorise, init, start) ==
    LET gitcmd == ParseGitCommand(execCommandName(payload))
        asked == IF authorise # "unset" THEN <<<<"authorise", authorise>>>> ELSE <<>>
        needInit == ~repoExists(existing, gitcmd.Repo)
        inited == asked \o (IF needInit THEN <<<<"init", init>>>> ELSE <<>>)
    IN  IF ~gitcmd.ok
        THEN [events |-> Sent(closed, <<"invalid", "">>), started |-> FALSE, created |-> {}]
        ELSE IF authorise = "err"
        THEN [events |-> asked, started |-> FALSE, created |-> {}]
        ELSE IF needInit /\ init # "nil"
        THEN [events |-> inited, started |-> FALSE, created |-> {}]
        ELSE IF start # "nil"
        THEN [events |-> inited \o <<<<"fail", IF start = "start" THEN "start" ELSE "pipe">>>>,
              started |-> FALSE,
              created |-> IF needInit THEN {gitcmd.Repo} ELSE {}]
        ELSE [events |-> inited \o <<<<"spawn", ctx.pk.Id>>>> \o Sent(closed, <<"reply", "">>),
              started |-> TRUE,
              created |-> IF needInit THEN {gitcmd.Repo} ELSE {}]

\* handleExecRequest up to req.Reply(true): the events of the request in order,
\* whether the subprocess was started, and the repository initRepo created.
\* authorise is "unset" when s.AuthoriseOperationFunc is nil at the time of the
\* request, else what it answers, "nil" or "err"; init is what initRepo answers
\* when it is called; start is "nil" or the step that fails, "stdout", "stderr",
\* "stdin" (the pipes) or "start"
handleExecRequest(c, ctx, existing, payload, closed, authorise, init, start) ==
    LET gitcmd == ParseGitCommand(execCommandName(payload))
        asked == IF authorise # "unset" THEN <<<<"authorise", authorise>>>> ELSE <<>>
        needInit == ~repoExists(existing, gitcmd.Repo) /\ c.AutoCreate
        inited == asked \o (IF needInit THEN <<<<"init", init>>>> ELSE <<>>)
    IN  IF ~gitcmd.ok
        THEN [events |-> Sent(closed, <<"invalid", "">>), started |-> FALSE, created |-> {}]
        ELSE IF authorise = "err"
        THEN [events |-> asked, started |-> FALSE, created |-> {}]
        ELSE IF needInit /\ init # "nil"
        THEN [events |-> inited, started |-> FALSE, created |-> {}]
        ELSE IF start # "nil"
        THEN [events |-> inited \o <<<<"fail", IF start = "start" THEN "start" ELSE "pipe">>>>,
              started |-> FALSE,
              created |-> IF needInit THEN {gitcmd.Repo} ELSE {}]
        ELSE [events |-> inited \o <<<<"spawn", ctx.pk.Id>>>> \o Sent(closed, <<"reply", "">>),
              started |-> TRUE,
              created |-> IF needInit THEN {gitcmd.Repo} ELSE {}]

\* a mutant: the completion signal is sent whatever cmd.Wait returned
finishExec_AlwaysSignal(code, closed) ==
    <<<<"exited", code>>>> \o Sent(closed, <<"exit-status", "0">>) \o Close(closed)

\* the end of handleExecRequest and of the exec case of handleRequest, once
\* the subprocess has exited with code: cmd.Wait, the exit-status request
\* (only when Wait returned nil), ch.Close()
finishExec(code, closed) ==
    <<<<"exited", code>>>>
        \o (IF code = "0" THEN Sent(closed, <<"exit-status", "0">>) ELSE <<>>)
        \o Close(closed)

\* no subprocess. Of a subprocess: what it has written and the handler has not
\* yet read (out, err), how much it has written in all (nout, nerr), and what
\* stands in its stdin pipe (sin)
NoProc == [st |-> "none", out |-> 0, err |-> 0, nout |-> 0, nerr |-> 0, sin |-> 0]

\* a channel nobody has opened. Of a channel: the requests queued (in), how
\* many have arrived, the requests handled so far in the order of handling
\* (hist: <<arrival number, type, whether a subprocess was started>>), the
\* client's data waiting in the channel and whether it has sent its end-of-file,
\* and the goroutine of io.Copy(input, ch) (cp)
NewChan ==
    [conn |-> 0, st |-> "unopened", in |-> <<>>, inClosed |-> FALSE,
     sentClose |-> FALSE, log |-> <<>>, proc |-> NoProc,
     arrived |-> 0, hist |-> <<>>, data |-> 0, eof |-> FALSE, cp |-> "none"]

\* a mutant: the loop takes the request that arrived last
Received_Last(ch) == chans[ch].in[Len(chans[ch].in)]

\* the request the loop of handleConnection receives next
Received(ch) == Head(chans[ch].in)

\* hist once that request has been handed to handleRequest
Taken(ch, spawned) ==
    Append(chans[ch].hist, <<Received(ch).seq, Received(ch).type, spawned>>)

\* handleConnection: the client opens a channel of type t on connection c;
\* a non-session channel is rejected, a session channel is accepted (or the
\* accept fails) and its request loop starts on a goroutine of its own
OpenChannel(c, ch, t, acceptOk) ==
    /\ conns[c].st = "established"
    /\ budget.chans > 0
    /\ chans[ch].st = "unopened"
    /\ \A d \in Chans : d < ch => chans[d].st # "unopened"
    /\ chans' = [chans EXCEPT ![ch].conn = c,
                              ![ch].st = IF t = "session" /\ acceptOk
                                         THEN "idle" ELSE "rejected"]
    /\ budget' = [budget EXCEPT !.chans = @ - 1]
    /\ UNCHANGED <<cfg, conns, repos, parseVars, environ, srv>>

Live(ch) == chans[ch].st \notin {"unopened", "rejected"}

\* the client sends a request on an open channel
ClientRequest(ch, req) ==
    /\ Live(ch)
    /\ ~chans[ch].inClosed
    /\ budget.reqs > 0
    /\ chans' = [chans EXCEPT
           ![ch].in = Append(@, [type |-> req.type, payload |-> req.payload,
                                 seq |-> chans[ch].arrived + 1]),
           ![ch].arrived = @ + 1]
    /\ budget' = [budget EXCEPT !.reqs = @ - 1]
    /\ UNCHANGED <<cfg, conns, repos, parseVars, environ, srv>>

\* the client closes the channel (or its connection ends): the library
\* answers with its own close, closes the request queue and fails the writes
\* from then on
ClientClose(ch) ==
    /\ Live(ch)
    /\ ~chans[ch].inClosed
    /\ chans' = [chans EXCEPT ![ch].inClosed = TRUE,
                              ![ch].sentClose = TRUE,
                              ![ch].log = @ \o Sent(chans[ch].sentClose, <<"close", "peer">>)]
    /\ UNCHANGED <<cfg, conns, repos, budget, parseVars, environ, srv>>

\* handleRequest, case "env"
HandleEnv(ch, run) ==
    /\ chans[ch].st = "idle"
    /\ chans[ch].in # <<>>
    /\ Head(chans[ch].in).type = "env"
    /\ LET r == handleEnvRequest(environ, cleanCommand(Head(chans[ch].in).payload), run)
       IN  /\ chans' = [chans EXCEPT
                  ![ch].in = Tail(@),
                  ![ch].hist = Taken(ch, FALSE),
                  ![ch].st = "done",
                  ![ch].log = <<Begin("env", chans[ch].sentClose), <<"ran", r.err>>>>]
           /\ environ' = r.environ
    /\ UNCHANGED <<cfg, conns, repos, budget, parseVars, srv>>

\* handleRequest, case "exec", up to the blocking copies: when the subprocess
\* did not start, handleExecRequest returns and the channel is closed
HandleExec(ch, authorise, init, start) ==
    /\ chans[ch].st = "idle"
    /\ chans[ch].in # <<>>
    /\ Head(chans[ch].in).type = "exec"
    /\ LET closed == chans[ch].sentClose
           r == handleExecRequest(cfg, conns[chans[ch].conn].ctx, repos,
                                  cleanCommand(Head(chans[ch].in).payload),
                                  closed, authorise, init, start)
       IN  /\ repos' = repos \cup r.created
           /\ IF r.started
              THEN chans' = [chans EXCEPT
                       ![ch].in = Tail(@),
                       ![ch].hist = Taken(ch, TRUE),
                       ![ch].log = <<Begin("exec", closed)>> \o r.events,
                       ![ch].st = "copyout",
                       ![ch].cp = "copying",
                       ![ch].proc = [NoProc EXCEPT !.st = "running"]]
              ELSE chans' = [chans EXCEPT
                       ![ch].in = Tail(@),
                       ![ch].hist = Taken(ch, FALSE),
                       ![ch].st = "done",
                       ![ch].log = <<Begin("exec", closed)>> \o r.events \o Close(closed),
                       ![ch].sentClose = TRUE]
    /\ UNCHANGED <<cfg, conns, budget, parseVars, environ, srv>>

\* handleRequest, case "shell": the banner (compile: what CompileBanner
\* returned, the banner still written), then ch.Close()
HandleShell(ch) ==
    /\ chans[ch].st = "idle"
    /\ chans[ch].in # <<>>
    /\ Head(chans[ch].in).type = "shell"
    /\ chans' = [chans EXCEPT
           ![ch].in = Tail(@),
           ![ch].hist = Taken(ch, FALSE),
           ![ch].st = "done",
           ![ch].log = <<Begin("shell", chans[ch].sentClose)>>
                         \o Sent(chans[ch].sentClose,
                                 <<"banner", conns[chans[ch].conn].ctx.pk.Id>>)
                         \o Close(chans[ch].sentClose),
           ![ch].sentClose = TRUE]
    /\ UNCHANGED <<cfg, conns, repos, budget, parseVars, environ, srv>>

\* handleRequest, default case: the request is logged and ignored
HandleOther(ch) ==
    /\ chans[ch].st = "idle"
    /\ chans[ch].in # <<>>
    /\ Head(chans[ch].in).type \notin {"env", "exec", "shell"}
    /\ chans' = [chans EXCEPT ![ch].in = Tail(@),
                              ![ch].hist = Taken(ch, FALSE),
                              ![ch].st = "done",
                              ![ch].log = <<Begin("ignored", chans[ch].sentClose)>>]
    /\ UNCHANGED <<cfg, conns, repos, budget, parseVars, environ, srv>>

\* handleRequest has returned: the request is dropped and the loop of
\* handleConnection goes on to receive the next one
LoopBack(ch) ==
    /\ chans[ch].st = "done"
    /\ chans' = [chans EXCEPT ![ch].st = "idle", ![ch].log = <<>>]
    /\ UNCHANGED <<cfg, conns, repos, budget, parseVars, environ, srv>>

\* the request loop of handleConnection ends when the queue is closed and
\* drained; the deferred ch.Close() runs
LoopEnd(ch) ==
    /\ chans[ch].st = "idle"
    /\ chans[ch].in = <<>>
    /\ chans[ch].inClosed
    /\ chans' = [chans EXCEPT ![ch].st = "ended",
                              ![ch].log = Close(chans[ch].sentClose),
                              ![ch].sentClose = TRUE]
    /\ UNCHANGED <<cfg, conns, repos, budget, parseVars, environ, srv>>

----------------------------------------------------------------------------
(* ssh.go: the process bridge *)

Running(ch) == chans[ch].proc.st = "running"

\* the write end of the subprocess's stdin pipe (input, of cmd.StdinPipe): the
\* handler holds it open from the start of the subprocess to the return of
\* cmd.Wait, which alone closes it; io.Copy(input, ch) does not
StdinOpen(ch) == chans[ch].proc.st # "none"

\* the client sends a chunk of data on the channel
ClientData(ch) ==
    /\ Live(ch)
    /\ ~chans[ch].inClosed
    /\ ~chans[ch].eof
    /\ budget.data > 0
    /\ chans' = [chans EXCEPT ![ch].data = @ + 1]
    /\ budget' = [budget EXCEPT !.data = @ - 1]
    /\ UNCHANGED <<cfg, conns, repos, parseVars, environ, srv>>

\* the client closes its sending side of the channel (end-of-file)
ClientEOF(ch) ==
    /\ Live(ch)
    /\ ~chans[ch].inClosed
    /\ ~chans[ch].eof
    /\ chans' = [chans EXCEPT ![ch].eof = TRUE]
    /\ UNCHANGED <<cfg, conns, repos, budget, parseVars, environ, srv>>

\* go io.Copy(input, ch) moves a chunk from the channel into the stdin pipe;
\* a write into a pipe nobody reads any more fails and ends the copy
CopyStdin(ch) ==
    /\ chans[ch].cp = "copying"
    /\ chans[ch].data > 0
    /\ chans' = [chans EXCEPT
           ![ch].data = @ - 1,
           ![ch].proc.sin = IF Running(ch) THEN @ + 1 ELSE @,
           ![ch].cp = IF Running(ch) THEN "copying" ELSE "ended"]
    /\ UNCHANGED <<cfg, conns, repos, budget, parseVars, environ, srv>>

\* go io.Copy(input, ch) reads the end of the client's data and returns; the
\* goroutine ends there and leaves input as it is
CopyStdinEOF(ch) ==
    /\ chans[ch].cp = "copying"
    /\ chans[ch].data = 0
    /\ chans[ch].eof \/ chans[ch].inClosed
    /\ chans' = [chans EXCEPT ![ch].cp = "ended"]
    /\ UNCHANGED <<cfg, conns, repos, budget, parseVars, environ, srv>>

\* the subprocess reads a chunk from its stdin; the stub echoes it to stdout
ProcRead(ch) ==
    /\ Running(ch)
    /\ chans[ch].proc.sin > 0
    /\ chans' = [chans EXCEPT
           ![ch].proc.sin = @ - 1,
           ![ch].proc.out = IF environ.PATH = "stub" THEN @ + 1 ELSE @,
           ![ch].proc.nout = IF environ.PATH = "stub" THEN @ + 1 ELSE @]
    /\ UNCHANGED <<cfg, conns, repos, budget, parseVars, environ, srv>>

\* the subprocess writes a chunk to its stdout (the stub only echoes)
ProcWriteStdout(ch) ==
    /\ Running(ch)
    /\ environ.PATH = "git"
    /\ chans[ch].proc.nout < MaxOutput
    /\ chans' = [chans EXCEPT ![ch].proc.out = @ + 1, ![ch].proc.nout = @ + 1]
    /\ UNCHANGED <<cfg, conns, repos, budget, parseVars, environ, srv>>

\* the subprocess writes a chunk to its stderr
ProcWriteStderr(ch) ==
    /\ Running(ch)
    /\ chans[ch].proc.nerr < MaxOutput
    /\ chans' = [chans EXCEPT ![ch].proc.err = @ + 1, ![ch].proc.nerr = @ + 1]
    /\ UNCHANGED <<cfg, conns, repos, budget, parseVars, environ, srv>>

\* the subprocess exits; its ends of the pipes close. The stub exits when it
\* has read its stdin to the end, which takes the write end closed
ProcExit(ch) ==
    /\ Running(ch)
    /\ environ.PATH = "stub" => (chans[ch].proc.sin = 0 /\ ~StdinOpen(ch))
    /\ chans' = [chans EXCEPT ![ch].proc.st = "exited"]
    /\ UNCHANGED <<cfg, conns, repos, budget, parseVars, environ, srv>>

\* a mutant: the chunk read from stdout is written to the error stream
CopyStdout_ToStderr(ch) ==
    /\ chans[ch].st = "copyout"
    /\ chans[ch].proc.out > 0
    /\ chans' = [chans EXCEPT
           ![ch].proc.out = @ - 1,
           ![ch].log = @ \o Sent(chans[ch].sentClose, <<"stderr", "">>),
           ![ch].st = IF chans[ch].sentClose THEN "copyerr" ELSE "copyout"]
    /\ UNCHANGED <<cfg, conns, repos, budget, parseVars, environ, srv>>

\* io.Copy(ch, stdout) moves a chunk; a failed write ends the copy
CopyStdout(ch) ==
    /\ chans[ch].st = "copyout"
    /\ chans[ch].proc.out > 0
    /\ chans' = [chans EXCEPT
           ![ch].proc.out = @ - 1,
           ![ch].log = @ \o Sent(chans[ch].sentClose, <<"stdout", "">>),
           ![ch].st = IF chans[ch].sentClose THEN "copyerr" ELSE "copyout"]
    /\ UNCHANGED <<cfg, conns, repos, budget, parseVars, environ, srv>>

\* io.Copy(ch, stdout) reads end-of-file and returns
CopyStdoutEOF(ch) ==
    /\ chans[ch].st = "copyout"
    /\ chans[ch].proc.out = 0
    /\ chans[ch].proc.st = "exited"
    /\ chans' = [chans EXCEPT ![ch].st = "copyerr"]
    /\ UNCHANGED <<cfg, conns, repos, budget, parseVars, environ, srv>>

\* io.Copy(ch.Stderr(), stderr) moves a chunk; a failed write ends the copy
CopyStderr(ch) ==
    /\ chans[ch].st = "copyerr"
    /\ chans[ch].proc.err > 0
    /\ chans' = [chans EXCEPT
           ![ch].proc.err = @ - 1,
           ![ch].log = @ \o Sent(chans[ch].sentClose, <<"stderr", "">>),
           ![ch].st = IF chans[ch].sentClose THEN "wait" ELSE "copyerr"]
    /\ UNCHANGED <<cfg, conns, repos, budget, parseVars, environ, srv>>

\* io.Copy(ch.Stderr(), stderr) reads end-of-file and returns
CopyStderrEOF(ch) ==
    /\ chans[ch].st = "copyerr"
    /\ chans[ch].proc.err = 0
    /\ chans[ch].proc.st = "exited"
    /\ chans' = [chans EXCEPT ![ch].st = "wait"]
    /\ UNCHANGED <<cfg, conns, repos, budget, parseVars, environ, srv>>

\* cmd.Wait() returns the exit status code of the subprocess (it is first
\* observed here): the rest of handleExecRequest, then ch.Close() in
\* handleRequest; the loop takes the next request
WaitExec(ch, code) ==
    /\ chans[ch].st = "wait"
    /\ chans[ch].proc.st = "exited"
    /\ chans' = [chans EXCEPT
           ![ch].log = @ \o finishExec(code, chans[ch].sentClose),
           ![ch].sentClose = TRUE,
           ![ch].st = "done",
           ![ch].proc = NoProc]
    /\ UNCHANGED <<cfg, conns, repos, budget, parseVars, environ, srv>>

----------------------------------------------------------------------------
(* ssh.go: the server lifecycle *)

\* the environment the server process runs in: what PATH resolves the git
\* verbs to (git itself, or the stub of the process bridge scenario that echoes
\* its stdin) and the value of LANG
GitEnviron == [PATH |-> "git", LANG |-> <<"C">>]

\* no listener set, no call made. listener is the field s.listener (0 for nil,
\* else the number of the net.Listener), made the listeners net.Listen has
\* returned so far, closed those of them that are closed; serve is the Serve
\* call (where it stands, the listener it last read, what it returned), stop
\* the Stop call, ret the last call that returned and its error
NoServer ==
    [listener |-> 0, made |-> 0, closed |-> {},
     serve |-> [pc |-> "none", l |-> 0, err |-> ""],
     stop |-> [pc |-> "none", l |-> 0],
     ret |-> <<>>]

\* after Listen and the call of Serve: Serve waits in Accept on listener 1
Serving ==
    [NoServer EXCEPT !.listener = 1, !.made = 1,
                     !.serve = [pc |-> "accepting", l |-> 1, err |-> ""],
                     !.ret = <<"Listen", "nil">>]

\* a mutant: Listen makes a new listener over the one that is set
Listen_Restart(s, outcome) ==
    IF outcome # "nil"
    THEN [s EXCEPT !.ret = <<"Listen", outcome>>]
    ELSE [s EXCEPT !.listener = s.made + 1, !.made = s.made + 1,
                   !.ret = <<"Listen", "nil">>]

\* SSH.Listen. outcome is "nil" or the step that fails: "setup" (s.setup or
\* s.config.Setup) or "listen" (net.Listen, which leaves the field nil)
Listen(s, outcome) ==
    IF s.listener # 0
    THEN [s EXCEPT !.ret = <<"Listen", "ErrAlreadyStarted">>]
    ELSE IF outcome # "nil"
    THEN [s EXCEPT !.ret = <<"Listen", outcome>>]
    ELSE [s EXCEPT !.listener = s.made + 1, !.made = s.made + 1,
                   !.ret = <<"Listen", "nil">>]

\* SSH.Serve up to its loop: without a listener it returns ErrNoListener
Serve(s) ==
    IF s.listener = 0
    THEN [s EXCEPT !.serve = [pc |-> "returned", l |-> 0, err |-> "ErrNoListener"],
                   !.ret = <<"Serve", "ErrNoListener">>]
    ELSE [s EXCEPT !.serve = [pc |-> "loop", l |-> s.listener, err |-> ""]]

\* SSH.Stop up to the return of s.listener.Close(): without a listener it
\* returns nil at once
Stop(s) ==
    IF s.listener = 0
    THEN [s EXCEPT !.ret = <<"Stop", "nil">>]
    ELSE [s EXCEPT !.closed = @ \cup {s.listener},
                   !.stop = [pc |-> "closed", l |-> s.listener]]

\* the server process runs: a nil dereference in Serve has not ended it
Alive == srv.serve.pc # "panicked"

\* the embedding program calls Listen
CallListen(outcome) ==
    /\ budget.calls > 0
    /\ srv' = Listen(srv, outcome)
    /\ budget' = [budget EXCEPT !.calls = @ - 1]
    /\ UNCHANGED <<cfg, conns, chans, repos, environ, parseVars>>

\* the embedding program calls Serve (one call at a time)
CallServe ==
    /\ budget.calls > 0
    /\ srv.serve.pc \in {"none", "returned"}
    /\ srv' = Serve(srv)
    /\ budget' = [budget EXCEPT !.calls = @ - 1]
    /\ UNCHANGED <<cfg, conns, chans, repos, environ, parseVars>>

\* the loop of Serve evaluates s.listener for s.listener.Accept(). Stop writes
\* the field without synchronization, so the read returns v: the field as it
\* is, or as this goroutine saw it last. On nil the method call panics
ServeRead(v) ==
    /\ srv.serve.pc = "loop"
    /\ v \in {srv.listener, srv.serve.l}
    /\ srv' = [srv EXCEPT !.serve = IF v = 0
                                    THEN [pc |-> "panicked", l |-> 0, err |-> "nil dereference"]
                                    ELSE [pc |-> "accepting", l |-> v, err |-> ""]]
    /\ UNCHANGED <<cfg, conns, chans, repos, environ, budget, parseVars>>

\* Accept returns the next connection: its handshake starts on a goroutine of
\* its own and the loop goes round
ServeAccept(c) ==
    /\ srv.serve.pc = "accepting"
    /\ srv.serve.l \notin srv.closed
    /\ conns[c].st = "none"
    /\ \A d \in Conns : d < c => conns[d].st # "none"
    /\ budget.conns > 0
    /\ conns' = [conns EXCEPT ![c].st = "handshaking"]
    /\ budget' = [budget EXCEPT !.conns = @ - 1]
    /\ srv' = [srv EXCEPT !.serve.pc = "loop"]
    /\ UNCHANGED <<cfg, chans, repos, environ, parseVars>>

\* Accept on a closed listener returns its error, and Serve returns it
ServeAcceptError ==
    /\ srv.serve.pc = "accepting"
    /\ srv.serve.l \in srv.closed
    /\ srv' = [srv EXCEPT !.serve = [pc |-> "returned", l |-> 0, err |-> "closed"],
                          !.ret = <<"Serve", "closed">>]
    /\ UNCHANGED <<cfg, conns, chans, repos, environ, budget, parseVars>>

\* the embedding program calls Stop (one call at a time)
CallStop ==
    /\ budget.calls > 0
    /\ srv.stop.pc = "none"
    /\ srv' = Stop(srv)
    /\ budget' = [budget EXCEPT !.calls = @ - 1]
    /\ UNCHANGED <<cfg, conns, chans, repos, environ, parseVars>>

\* the deferred function of Stop sets the field to nil, and Stop returns the
\* error of Close
StopReturn ==
    /\ srv.stop.pc = "closed"
    /\ srv' = [srv EXCEPT !.listener = 0,
                          !.stop = [pc |-> "none", l |-> 0],
                          !.ret = <<"Stop", "nil">>]
    /\ UNCHANGED <<cfg, conns, chans, repos, environ, budget, parseVars>>

----------------------------------------------------------------------------
(* The server *)

\* NewSSH: no connection, no channel, no repository yet
InitServer ==
    /\ conns = [c \in Conns |-> NewConn]
    /\ chans = [ch \in Chans |-> NewChan]
    /\ repos = {}
    /\ environ = GitEnviron
    /\ srv = Serving

\* the configurations the session pipeline is followed under: authentication
\* on, the default pre-login check, a required user name
SessionConfigs == {c \in Configs : c.Auth /\ ~c.PreLogin /\ c.GitUser = "git"}

Init ==
    /\ cfg \in SessionConfigs
    /\ InitServer
    /\ budget = [conns |-> MaxSessionConns, chans |-> MaxChans, reqs |-> MaxReqs,
                 data |-> 0, calls |-> 0]
    /\ cmd = <<>>
    /\ result = <<>>

Outcomes == {"nil", "err"}

Next ==
    \/ \E c \in Conns : Accept(c)
    \/ \E c \in Conns, u \in Users, supplied \in Outcomes,
          pkey \in {"err", "nil"} \cup KeyIds : AuthAttempt(c, u, supplied, pkey)
    \/ \E c \in Conns, u \in Users : HandshakeDone(c, u)
    \/ \E c \in Conns : HandshakeFail(c)
    \/ \E c \in Conns, ch \in Chans, t \in {"session", "direct-tcpip"},
          acceptOk \in BOOLEAN : OpenChannel(c, ch, t, acceptOk)
    \/ \E ch \in Chans, req \in Requests : ClientRequest(ch, req)
    \/ \E ch \in Chans : ClientClose(ch)
    \/ \E ch \in Chans, run \in Outcomes : HandleEnv(ch, run)
    \/ \E ch \in Chans, authorise \in {"unset"} \cup Outcomes, init \in Outcomes,
          start \in {"nil", "stdout", "stderr", "stdin", "start"} :
              HandleExec(ch, authorise, init, start)
    \/ \E ch \in Chans : HandleShell(ch)
    \/ \E ch \in Chans : HandleOther(ch)
    \/ \E ch \in Chans : LoopBack(ch)
    \/ \E ch \in Chans : LoopEnd(ch)
    \/ \E ch \in Chans : ProcWriteStdout(ch)
    \/ \E ch \in Chans : ProcWriteStderr(ch)
    \/ \E ch \in Chans : ProcExit(ch)
    \/ \E ch \in Chans : CopyStdout(ch)
    \/ \E ch \in Chans : CopyStdoutEOF(ch)
    \/ \E ch \in Chans : CopyStderr(ch)
    \/ \E ch \in Chans : CopyStderrEOF(ch)
    \/ \E ch \in Chans, code \in {"0", "1"} : WaitExec(ch, code)

Spec == Init /\ [][Next]_vars

----------------------------------------------------------------------------
(* The process bridge alone: one connection, one channel, one exec request  *)
(* that parses, a client that sends data and its end-of-file, and either    *)
(* git or the echoing stub behind the verb. Every goroutine of the server   *)
(* and the subprocess take the steps they can take.                         *)

StubEnviron == [GitEnviron EXCEPT !.PATH = "stub"]

InitBridge ==
    /\ cfg \in SessionConfigs
    /\ conns = [c \in Conns |-> NewConn]
    /\ chans = [ch \in Chans |-> NewChan]
    /\ repos = {}
    /\ environ \in {GitEnviron, StubEnviron}
    /\ srv = Serving
    /\ budget = [conns |-> 1, chans |-> 1, reqs |-> 1, data |-> MaxInput, calls |-> 0]
    /\ cmd = <<>>
    /\ result = <<>>

\* the handler of a started exec request: the two copies, cmd.Wait and the
\* return to the request loop
BridgeStep(ch) ==
    \/ CopyStdout(ch)
    \/ CopyStdoutEOF(ch)
    \/ CopyStderr(ch)
    \/ CopyStderrEOF(ch)
    \/ \E code \in {"0", "1"} : WaitExec(ch, code)
    \/ LoopBack(ch)
    \/ LoopEnd(ch)

\* the goroutine of handleConnection's request loop on ch
HandlerStep(ch) == HandleExec(ch, "unset", "nil", "nil") \/ BridgeStep(ch)

\* the goroutine of io.Copy(input, ch)
StdinStep(ch) == CopyStdin(ch) \/ CopyStdinEOF(ch)

\* the subprocess
ProcStep(ch) ==
    \/ ProcRead(ch)
    \/ ProcWriteStdout(ch)
    \/ ProcWriteStderr(ch)
    \/ ProcExit(ch)

NextBridge ==
    \/ \E c \in Conns : Accept(c)
    \/ \E c \in Conns, pkey \in KeyIds : AuthAttempt(c, "git", "nil", pkey)
    \/ \E c \in Conns : HandshakeDone(c, "git")
    \/ \E c \in Conns, ch \in Chans : OpenChannel(c, ch, "session", TRUE)
    \/ \E ch \in Chans : ClientRequest(ch, [type |-> "exec", payload |-> PayloadUploadA])
    \/ \E ch \in Chans : ClientData(ch)
    \/ \E ch \in Chans : ClientEOF(ch)
    \/ \E ch \in Chans : ClientClose(ch)
    \/ \E ch \in Chans : HandlerStep(ch)
    \/ \E ch \in Chans : StdinStep(ch)
    \/ \E ch \in Chans : ProcStep(ch)

SpecBridge ==
    /\ InitBridge
    /\ [][NextBridge]_vars
    /\ \A ch \in Chans :
           /\ WF_vars(BridgeStep(ch))
           /\ WF_vars(StdinStep(ch))
           /\ WF_vars(ProcStep(ch))

----------------------------------------------------------------------------
(* The requests in their variety: one authenticated connection, its         *)
(* channels, and exec and env payloads well-formed and not                  *)

InitReq ==
    /\ cfg = [Auth |-> TRUE, GitUser |-> "git", AutoCreate |-> FALSE, PreLogin |-> FALSE]
    /\ InitServer
    /\ budget = [conns |-> 1, chans |-> MaxChans, reqs |-> MaxReqs, data |-> 0,
                 calls |-> 0]
    /\ cmd = <<>>
    /\ result = <<>>

NextReq ==
    \/ \E c \in Conns : Accept(c)
    \/ \E c \in Conns : AuthAttempt(c, "git", "nil", "k1")
    \/ \E c \in Conns : HandshakeDone(c, "git")
    \/ \E c \in Conns, ch \in Chans : OpenChannel(c, ch, "session", TRUE)
    \/ \E ch \in Chans, req \in RequestsWide : ClientRequest(ch, req)
    \/ \E ch \in Chans : ClientClose(ch)
    \/ \E ch \in Chans, run \in Outcomes : HandleEnv(ch, run)
    \/ \E ch \in Chans, authorise \in Outcomes : HandleExec(ch, authorise, "nil", "nil")
    \/ \E ch \in Chans : HandleShell(ch)
    \/ \E ch \in Chans : HandleOther(ch)
    \/ \E ch \in Chans : LoopBack(ch)
    \/ \E ch \in Chans : LoopEnd(ch)
    \/ \E ch \in Chans : ProcWriteStdout(ch)
    \/ \E ch \in Chans : ProcWriteStderr(ch)
    \/ \E ch \in Chans : ProcExit(ch)
    \/ \E ch \in Chans : CopyStdout(ch)
    \/ \E ch \in Chans : CopyStdoutEOF(ch)
    \/ \E ch \in Chans : CopyStderr(ch)
    \/ \E ch \in Chans : CopyStderrEOF(ch)
    \/ \E ch \in Chans, code \in {"0", "1"} : WaitExec(ch, code)

SpecReq == InitReq /\ [][NextReq]_vars

----------------------------------------------------------------------------
(* The session contexts: two connections, each with its handshake, its      *)
(* channel and its requests, with authentication and without                *)

ContextConfigs ==
    {c \in Configs : ~c.AutoCreate /\ ~c.PreLogin /\ (c.Auth => c.GitUser = "")}

InitCtx ==
    /\ cfg \in ContextConfigs
    /\ InitServer
    /\ budget = [conns |-> MaxConns, chans |-> MaxChans, reqs |-> MaxReqs + 1,
                 data |-> 0, calls |-> 0]
    /\ cmd = <<>>
    /\ result = <<>>

NextCtx ==
    \/ \E c \in Conns : Accept(c)
    \/ \E c \in Conns, u \in Users, pkey \in {"nil"} \cup KeyIds :
          AuthAttempt(c, u, "nil", pkey)
    \/ \E c \in Conns, u \in Users : HandshakeDone(c, u)
    \/ \E c \in Conns : HandshakeFail(c)
    \/ \E c \in Conns, ch \in Chans : OpenChannel(c, ch, "session", TRUE)
    \/ \E ch \in Chans, pl \in {PayloadUploadA} :
          ClientRequest(ch, [type |-> "exec", payload |-> pl])
    \/ \E ch \in Chans, pl \in {PayloadEnvLang} :
          ClientRequest(ch, [type |-> "env", payload |-> pl])
    \/ \E ch \in Chans : HandleEnv(ch, "nil")
    \/ \E ch \in Chans : HandleExec(ch, "unset", "nil", "nil")
    \/ \E ch \in Chans : LoopBack(ch)
    \/ \E ch \in Chans : ProcExit(ch)
    \/ \E ch \in Chans : CopyStdoutEOF(ch)
    \/ \E ch \in Chans : CopyStderrEOF(ch)
    \/ \E ch \in Chans : WaitExec(ch, "0")

SpecCtx == InitCtx /\ [][NextCtx]_vars

----------------------------------------------------------------------------
(* The lifecycle: the calls of Listen, Serve and Stop in any order and      *)
(* beside each other, with one connection and its session going on. A panic *)
(* ends the process, and every step with it.                                *)

InitLife ==
    /\ cfg \in {c \in SessionConfigs : ~c.AutoCreate}
    /\ conns = [c \in Conns |-> NewConn]
    /\ chans = [ch \in Chans |-> NewChan]
    /\ repos = {}
    /\ environ = GitEnviron
    /\ srv = NoServer
    /\ budget = [conns |-> 1, chans |-> 1, reqs |-> 1, data |-> 0, calls |-> MaxCalls]
    /\ cmd = <<>>
    /\ result = <<>>

NextLife ==
    \/ \E outcome \in {"nil", "setup", "listen"} : Alive /\ CallListen(outcome)
    \/ Alive /\ CallServe
    \/ \E v \in 0..MaxCalls : Alive /\ ServeRead(v)
    \/ \E c \in Conns : Alive /\ ServeAccept(c)
    \/ Alive /\ ServeAcceptError
    \/ Alive /\ CallStop
    \/ Alive /\ StopReturn
    \/ \E c \in Conns : Alive /\ AuthAttempt(c, "git", "nil", "k1")
    \/ \E c \in Conns : Alive /\ HandshakeDone(c, "git")
    \/ \E c \in Conns, ch \in Chans : Alive /\ OpenChannel(c, ch, "session", TRUE)
    \/ \E ch \in Chans :
          Alive /\ ClientRequest(ch, [type |-> "exec", payload |-> PayloadUploadA])
    \/ \E ch \in Chans : Alive /\ HandleExec(ch, "unset", "nil", "nil")
    \/ \E ch \in Chans : Alive /\ ProcWriteStdout(ch)
    \/ \E ch \in Chans : Alive /\ ProcExit(ch)
    \/ \E ch \in Chans : Alive /\ CopyStdout(ch)
    \/ \E ch \in Chans : Alive /\ CopyStdoutEOF(ch)
    \/ \E ch \in Chans : Alive /\ CopyStderrEOF(ch)
    \/ \E ch \in Chans : Alive /\ WaitExec(ch, "0")
    \/ \E ch \in Chans : Alive /\ LoopBack(ch)

SpecLife == InitLife /\ [][NextLife]_vars

----------------------------------------------------------------------------
(* The handshakes alone: every configuration, the channels opened but no   *)
(* request sent                                                             *)

InitAuth ==
    /\ cfg \in Configs
    /\ InitServer
    /\ budget = [conns |-> MaxConns, chans |-> MaxChans, reqs |-> 0, data |-> 0,
                 calls |-> 0]
    /\ cmd = <<>>
    /\ result = <<>>

NextAuth ==
    \/ \E c \in Conns : Accept(c)
    \/ \E c \in Conns, u \in Users, supplied \in Outcomes,
          pkey \in {"err", "nil"} \cup KeyIds : AuthAttempt(c, u, supplied, pkey)
    \/ \E c \in Conns, u \in Users : HandshakeDone(c, u)
    \/ \E c \in Conns : HandshakeFail(c)
    \/ \E c \in Conns, ch \in Chans, t \in {"session", "direct-tcpip"},
          acceptOk \in BOOLEAN : OpenChannel(c, ch, t, acceptOk)

SpecAuth == InitAuth /\ [][NextAuth]_vars

----------------------------------------------------------------------------
(* The parser's inputs: TestParseGitCommand's table, widened *)

PathTokens == {Slash, <<"a">>, DotGit, <<"'">>, <<"\n">>}

RECURSIVE PathsOf(_)
PathsOf(n) ==
    IF n = 0 THEN {<<>>}
    ELSE LET shorter == PathsOf(n - 1)
         IN  shorter \cup {t \o p : t \in PathTokens, p \in shorter}

Paths == PathsOf(MaxPathTokens)

\* what may stand between "git" and the rest of the verb
Separators == {<<"-">>, <<" ">>, <<"|">>, <<"\t">>, <<"_">>, <<>>, <<" ", " ">>}

GoodSeparators == {<<"-">>, <<" ">>, <<"|">>, <<"\t">>}

Rests == VerbRests \cup {<<"l", "s">>}

Leads == {<<>>, <<"x">>}

Opens == {<<" ", "'">>, <<"'">>, <<" ">>, <<" ", " ", "'">>}

Closes == {<<"'">>, <<>>, <<"'", " ">>, <<"'", "\n">>}

FewPaths == {<<"a">>, <<"'", "a">>}

ParserInputs ==
    {Git \o sep \o rest \o <<" ", "'">> \o p \o <<"'">> :
         sep \in GoodSeparators, rest \in VerbRests, p \in Paths}
    \cup
    {lead \o Git \o sep \o rest \o open \o p \o close :
         lead \in Leads, sep \in Separators, rest \in Rests, open \in Opens,
         p \in FewPaths, close \in Closes}

InitParse ==
    /\ cmd \in ParserInputs
    /\ result = <<>>
    /\ cfg = [Auth |-> TRUE, GitUser |-> "git", AutoCreate |-> TRUE, PreLogin |-> FALSE]
    /\ InitServer
    /\ budget = [conns |-> 0, chans |-> 0, reqs |-> 0, data |-> 0, calls |-> 0]

\* cmd, err := ParseGitCommand(name)
CallParseGitCommand ==
    /\ result = <<>>
    /\ result' = <<ParseGitCommand(cmd)>>
    /\ UNCHANGED <<cmd, serverVars>>

NextParse == CallParseGitCommand

SpecParse == InitParse /\ [][NextParse]_vars

----------------------------------------------------------------------------
(* The command grammar as the specification words it (sections 4.1 and 6):  *)
(* one of six verbs, one space, a single-quoted path                        *)

SixVerbs ==
    {Git \o sep \o rest : sep \in {<<"-">>, <<" ">>}, rest \in VerbRests}

\* s is verb, one space, quote, path, quote; the path holds no line feed
InGrammarWith(s, verb) ==
    /\ Len(s) >= Len(verb) + 3
    /\ HasPrefix(s, verb \o <<" ", "'">>)
    /\ s[Len(s)] = "'"
    /\ \A i \in (Len(verb) + 3)..(Len(s) - 1) : s[i] # "\n"

InGrammar(s) == \E verb \in SixVerbs : InGrammarWith(s, verb)

\* the text between the first quote of s and its last character
QuotedPath(s) == SubSeq(s, Index(s, <<"'">>) + 1, Len(s) - 1)

Parsed == result # <<>> /\ result[1].ok

----------------------------------------------------------------------------
(* Claims about ParseGitCommand, checked under SpecParse *)

\* C1: every string of the grammar parses; Command is the verb as written and
\* Repo is the quoted path less at most one leading separator and a trailing
\* ".git", the other separators kept
C1_ParsesGrammar ==
    result # <<>> =>
        \A verb \in SixVerbs :
            InGrammarWith(cmd, verb) =>
                /\ result[1].ok
                /\ result[1].Command = verb
                /\ result[1].Repo = parseRepoNameCutPrefix(QuotedPath(cmd))

\* C2: a string outside the grammar does not parse, so every Command produced
\* is one of the six hyphen or space verb forms
C2_RejectsOthers ==
    result # <<>> =>
        /\ ~InGrammar(cmd) => ~result[1].ok
        /\ result[1].ok => result[1].Command \in SixVerbs

\* C3, as claimed: every Repo produced has no leading separator and no
\* trailing ".git"
C3_RepoNormalised ==
    Parsed => /\ ~HasPrefix(result[1].Repo, Slash)
              /\ ~HasSuffix(result[1].Repo, DotGit)

\* C3, as amended: one separator and one ".git" are removed and no more. Repo
\* begins with a separator exactly when the path began with two, and ends in
\* ".git" exactly when the path, its first separator removed, ended in
\* ".git.git"
C3_RepoStrippedOnce ==
    Parsed =>
        /\ HasPrefix(result[1].Repo, Slash) <=> HasPrefix(QuotedPath(cmd), Slash \o Slash)
        /\ HasSuffix(result[1].Repo, DotGit)
               <=> HasSuffix(DeleteFirst(QuotedPath(cmd), Slash), DotGit \o DotGit)

\* a path with a leading separator and a ".git" was parsed, and both are gone
C3_Witness ==
    /\ Parsed
    /\ HasPrefix(QuotedPath(cmd), Slash)
    /\ HasSuffix(QuotedPath(cmd), DotGit)
    /\ ~HasPrefix(result[1].Repo, Slash)
    /\ ~HasSuffix(result[1].Repo, DotGit)
    /\ result[1].Repo # <<>>

\* C4: a path that is already normalised (no leading separator, no trailing
\* ".git") comes back unchanged as Repo, interior separators included
C4_NormalisedUnchanged ==
    (/\ Parsed
     /\ ~HasPrefix(QuotedPath(cmd), Slash)
     /\ ~HasSuffix(QuotedPath(cmd), DotGit))
        => result[1].Repo = QuotedPath(cmd)

----------------------------------------------------------------------------
(* Reading a channel's log: the events of the request being handled *)

Tags(log) == {log[i][1] : i \in 1..Len(log)}

Has(log, event) == \E i \in 1..Len(log) : log[i] = event

Count(log, tag) == Cardinality({i \in 1..Len(log) : log[i][1] = tag})

\* the position of the first event with that tag, 0 when there is none
First(log, tag) ==
    LET at == {i \in 1..Len(log) : log[i][1] = tag}
    IN  IF at = {} THEN 0 ELSE CHOOSE i \in at : \A j \in at : i <= j

\* the request being handled on ch is an exec request
IsExec(ch) == chans[ch].log # <<>> /\ chans[ch].log[1][1] = "exec"

\* the handler of the request on ch has returned
Returned(ch) == chans[ch].st = "done"

Bridging(ch) == chans[ch].st \in {"copyout", "copyerr", "wait"}

----------------------------------------------------------------------------
(* Claims about the exec request, checked under Spec *)

\* AuthoriseOperationFunc denied the request being handled on ch
Denied(ch) == Has(chans[ch].log, <<"authorise", "err">>)

\* C5, the request itself: denied, it spawns nothing, initializes nothing, is
\* not acknowledged, and its channel is closed
C5_DeniedRequest ==
    \A ch \in Chans :
        Denied(ch) =>
            /\ Tags(chans[ch].log) \cap {"spawn", "init", "reply", "stdout", "stderr"} = {}
            /\ chans[ch].proc = NoProc
            /\ ~Bridging(ch)
            /\ chans[ch].sentClose

\* C5, the other channels: the step that denies a request on ch touches nothing but ch: the other
\* channels, the connections and the repositories are as they were
C5_DenialIsLocal ==
    \A ch \in Chans :
        (chans[ch].st = "idle" /\ Denied(ch)')
            => /\ \A d \in Chans \ {ch} : chans'[d] = chans[d]
               /\ UNCHANGED <<conns, repos, cfg>>

\* C5: an exec request that parses and is denied by AuthoriseOperationFunc
\* spawns no subprocess, runs no repository initialization and is not
\* acknowledged; its channel is closed, and the denying step leaves every other
\* channel, the connection and the repositories as they were
C5_DenialAbortsOneRequest == []C5_DeniedRequest /\ [][C5_DenialIsLocal]_vars

\* a request was denied on one channel, whose channel is closed, while another
\* channel of the same connection is open and has a subprocess running
C5_Witness ==
    \E ch \in Chans, d \in Chans :
        /\ ch # d
        /\ Denied(ch)
        /\ chans[ch].sentClose
        /\ chans[d].conn = chans[ch].conn
        /\ ~chans[d].sentClose
        /\ chans[d].proc.st = "running"
        /\ Has(chans[d].log, <<"reply", "">>)

\* the channel was closed when the request was taken, or its close message is
\* in the log before position i
ClosedBefore(log, i) ==
    log[1][2] = "closed" \/ \E j \in 1..(i - 1) : log[j][1] = "close"

\* C6, as claimed: every exec request whose subprocess was started, on a
\* channel the client has not closed, sends the completion signal exactly once
\* after the subprocess has terminated, whatever its exit status, and before
\* the channel is closed
C6_AlwaysOneSignal ==
    \A ch \in Chans :
        (/\ Returned(ch)
         /\ "spawn" \in Tags(chans[ch].log)
         /\ ~ClosedBefore(chans[ch].log, First(chans[ch].log, "exited")))
            => /\ Count(chans[ch].log, "exit-status") = 1
               /\ First(chans[ch].log, "exited") < First(chans[ch].log, "exit-status")
               /\ First(chans[ch].log, "exit-status") < First(chans[ch].log, "close")

\* C6, as amended: the completion signal is sent at most once, only right
\* after cmd.Wait returned without error (exit status zero) and before the
\* channel is closed; a request whose subprocess exited with status zero on a
\* channel still open sends it exactly once, and a request whose subprocess
\* exited non-zero sends none
C6_SignalOnSuccessOnly ==
    \A ch \in Chans :
        LET log == chans[ch].log
            x == First(log, "exited")
            e == First(log, "exit-status")
        IN  /\ Count(log, "exit-status") <= 1
            /\ e # 0 => /\ "spawn" \in Tags(log)
                        /\ log[e] = <<"exit-status", "0">>
                        /\ e = x + 1
                        /\ log[x] = <<"exited", "0">>
                        /\ ~ClosedBefore(log, e)
                        /\ Len(log) > e /\ log[e + 1] = <<"close", "">>
            /\ Has(log, <<"exited", "1">>) => e = 0
            /\ (Has(log, <<"exited", "0">>) /\ ~ClosedBefore(log, x)) => e # 0

\* a subprocess exited with status zero and the signal went out before the close
C6_Witness ==
    \E ch \in Chans :
        /\ Returned(ch)
        /\ Has(chans[ch].log, <<"exited", "0">>)
        /\ Has(chans[ch].log, <<"exit-status", "0">>)
        /\ Has(chans[ch].log, <<"stdout", "">>)
        /\ chans[ch].log[Len(chans[ch].log)] = <<"close", "">>

\* the exec request on ch failed before its subprocess started
FailedBeforeStart(ch) ==
    /\ IsExec(ch)
    /\ Returned(ch)
    /\ "spawn" \notin Tags(chans[ch].log)

\* C7: the exec request is acknowledged at most once and only after its
\* subprocess has started; a request that failed before that (parse failure,
\* denial, failed initialization, a pipe that would not open, failed start)
\* is not acknowledged, starts no subprocess and copies no stream
C7_ReplyOnlyAfterStart ==
    \A ch \in Chans :
        LET log == chans[ch].log
        IN  /\ Count(log, "reply") <= 1
            /\ "reply" \in Tags(log)
                   => /\ First(log, "spawn") # 0
                      /\ First(log, "spawn") < First(log, "reply")
            /\ Tags(log) \cap {"stdout", "stderr"} # {} => "spawn" \in Tags(log)
            /\ (Bridging(ch) \/ chans[ch].proc # NoProc) => "spawn" \in Tags(log)
            /\ (\/ Tags(log) \cap {"invalid", "fail"} # {}
                \/ Has(log, <<"authorise", "err">>)
                \/ Has(log, <<"init", "err">>)
                \/ FailedBeforeStart(ch))
                   => /\ Tags(log) \cap {"spawn", "reply", "stdout", "stderr", "exit-status"} = {}
                      /\ chans[ch].proc = NoProc
                      /\ Returned(ch)

\* one request was acknowledged after its start while, on another channel, a
\* request failed on a pipe and was not
C7_Witness ==
    \E ch \in Chans, d \in Chans :
        /\ Has(chans[ch].log, <<"reply", "">>)
        /\ Bridging(ch)
        /\ Has(chans[d].log, <<"fail", "pipe">>)
        /\ FailedBeforeStart(d)

----------------------------------------------------------------------------
(* Claims about the handshake, checked under SpecAuth *)

Established(c) == conns[c].st = "established"

\* the key callback last run for c asked the pre-login check first, looked the
\* key up only after its approval, and returned an error on its rejection
CallbackInOrder(c) ==
    LET calls == conns[c].calls
    IN  calls # <<>> =>
            /\ calls[1][1] = "prelogin"
            /\ \A i \in 1..Len(calls) :
                   calls[i][1] = "lookup" => i = 2 /\ calls[1][3] = "nil"
            /\ calls[1][3] # "nil"
                   => /\ Count(calls, "lookup") = 0
                      /\ calls[Len(calls)] = <<"return", calls[1][2], "err">>
                      /\ ~conns[c].perms.set
                      /\ ~Established(c)

\* C8: with authentication enabled the pre-login check runs before the
\* public-key lookup; when it rejects, the lookup is not invoked by that
\* callback, the callback fails and the handshake is not accepted on it
C8_PreLoginBeforeLookup ==
    cfg.Auth => \A c \in Conns : CallbackInOrder(c)

\* a pre-login check has rejected, and the callback returned without a lookup
C8_Witness ==
    \E c \in Conns :
        /\ cfg.Auth
        /\ conns[c].calls = <<<<"prelogin", "bob", "ErrIncorrectUser">>,
                              <<"return", "bob", "err">>>>
        /\ \E d \in Conns : Established(d)

\* the handshake of c went through a callback whose pre-login check approved
\* and whose lookup returned a key, the one bound into the session context
AuthenticatedBy(c) ==
    LET calls == conns[c].calls
    IN  /\ Len(calls) = 3
        /\ calls[1] = <<"prelogin", conns[c].user, "nil">>
        /\ calls[2][1] = "lookup" /\ calls[2][3] \in KeyIds
        /\ calls[3] = <<"return", conns[c].user, "ok">>
        /\ conns[c].ctx = [pk |-> [Id |-> calls[2][3], Name |-> KeyName(calls[2][3])],
                           user |-> conns[c].user]

\* channels exist only on established connections
DispatchedOnlyIfEstablished ==
    \A ch \in Chans : chans[ch].conn # 0 => Established(chans[ch].conn)

\* C9, as claimed: a connection is established only if its pre-login check
\* approved and its lookup returned a key without error, and only established
\* connections have channels
C9_EstablishedOnlyIfAuthenticated ==
    /\ \A c \in Conns : Established(c) => AuthenticatedBy(c)
    /\ DispatchedOnlyIfEstablished

\* C9, as amended: with authentication enabled (Config.Auth), a connection is
\* established only if its pre-login check approved and its lookup returned a
\* non-nil key without error; under every configuration only established
\* connections have channels
C9_AuthEstablishedOnlyIfAuthenticated ==
    /\ cfg.Auth => \A c \in Conns : Established(c) => AuthenticatedBy(c)
    /\ DispatchedOnlyIfEstablished

\* an authenticated connection has a channel while the handshake of another
\* has failed on a lookup that returned no key
C9_Witness ==
    \E c \in Conns, d \in Conns, ch \in Chans :
        /\ cfg.Auth
        /\ Established(c) /\ AuthenticatedBy(c)
        /\ chans[ch].conn = c /\ chans[ch].st = "idle"
        /\ conns[d].st = "handshaking"
        /\ Has(conns[d].calls, <<"lookup", conns[d].user, "nil">>)
        /\ ~conns[d].perms.set

\* the default check decides on the user name alone
DefaultCheckHolds(c) ==
    /\ conns[c].calls # <<>>
           => (conns[c].calls[1][3] = "nil" <=> conns[c].calls[1][2] = cfg.GitUser)
    /\ Established(c) => conns[c].user = cfg.GitUser

\* C10, as claimed: without a supplied PreLoginFunc and with a required user
\* name, a handshake under another user name is rejected and one under the
\* required name passes the pre-login check
C10_DefaultRejectsOtherUsers ==
    (~cfg.PreLogin /\ cfg.GitUser # "") => \A c \in Conns : DefaultCheckHolds(c)

\* C10, as amended: the same with authentication enabled (Config.Auth); with
\* authentication disabled no pre-login check runs at all
C10_AuthDefaultRejectsOtherUsers ==
    (cfg.Auth /\ ~cfg.PreLogin /\ cfg.GitUser # "")
        => \A c \in Conns : DefaultCheckHolds(c)

\* under the default check one handshake was rejected for its user name and
\* another, under the required name, was established
C10_Witness ==
    /\ cfg.Auth /\ ~cfg.PreLogin /\ cfg.GitUser = "git"
    /\ \E c \in Conns, d \in Conns :
           /\ conns[c].calls # <<>>
           /\ conns[c].calls[1] = <<"prelogin", "bob", "ErrIncorrectUser">>
           /\ Established(d)
           /\ conns[d].user = "git"
           /\ conns[d].calls[1] = <<"prelogin", "git", "nil">>

----------------------------------------------------------------------------
(* Claims about the process bridge, checked under SpecBridge *)

\* every event of the log with tag a stands before every event with tag b
Precedes(log, a, b) ==
    \A i \in 1..Len(log), j \in 1..Len(log) :
        (log[i][1] = a /\ log[j][1] = b) => i < j

\* C11, the channel: what the request has written to the channel so far stands
\* in the order stdout, stderr, completion signal; a stderr chunk is on the
\* channel only when stdout has been read to its end; each chunk read from a
\* pipe went to the stream of that pipe; and the handler at cmd.Wait can go on
\* whatever the copy into stdin is doing
C11_Streams ==
    \A ch \in Chans :
        LET log == chans[ch].log
            proc == chans[ch].proc
        IN  /\ Precedes(log, "stdout", "stderr")
            /\ Precedes(log, "stdout", "exit-status")
            /\ Precedes(log, "stderr", "exit-status")
            /\ (Bridging(ch) /\ "stderr" \in Tags(log))
                   => (proc.out = 0 /\ proc.st = "exited")
            /\ Bridging(ch)
                   => /\ Count(log, "stdout") <= proc.nout - proc.out
                      /\ Count(log, "stderr") <= proc.nerr - proc.err
                      /\ ~chans[ch].sentClose
                             => /\ Count(log, "stdout") = proc.nout - proc.out
                                /\ Count(log, "stderr") = proc.nerr - proc.err
            /\ (chans[ch].st = "wait" /\ proc.st = "exited")
                   => ENABLED WaitExec(ch, "0")

\* C11, the steps: the copy of stderr begins only when the copy of stdout has
\* read end-of-file from an exited subprocess, or has failed on a write to a
\* channel that is closed (and then nothing more is written); no step of the
\* handler changes, or waits for, the copy into stdin
C11_CopyOrder ==
    \A ch \in Chans :
        /\ (chans[ch].st = "copyout" /\ chans'[ch].st = "copyerr")
               => \/ chans[ch].proc.out = 0 /\ chans[ch].proc.st = "exited"
                  \/ chans[ch].sentClose
        /\ (Bridging(ch) /\ chans'[ch].st # chans[ch].st)
               => chans'[ch].cp = chans[ch].cp

\* C11: for every started subprocess the bytes written to the channel stand in
\* the order stdout (to its end-of-stream), then stderr, then the completion
\* signal, each pipe on its own stream, while the copy from the channel into
\* stdin runs beside the handler and is never waited for
C11_StdoutThenStderr == []C11_Streams /\ [][C11_CopyOrder]_vars

\* a request has come to its end with stdout, then stderr, then the completion
\* signal on the channel, and the copy into stdin is still running
C11_Witness ==
    \E ch \in Chans :
        /\ environ.PATH = "git"
        /\ Returned(ch)
        /\ Has(chans[ch].log, <<"stdout", "">>)
        /\ Has(chans[ch].log, <<"stderr", "">>)
        /\ Has(chans[ch].log, <<"exit-status", "0">>)
        /\ chans[ch].cp = "copying"

\* C18: with the echoing stub behind the verb, once the client has sent its
\* end-of-file on a channel whose subprocess runs, the request comes to its
\* end: cmd.Wait returns and the channel is closed
C18_BridgeTerminates ==
    \A ch \in Chans :
        (environ.PATH = "stub" /\ Running(ch) /\ chans[ch].eof)
            ~> (chans[ch].proc.st = "none")

----------------------------------------------------------------------------
(* Claims about the request loop of a channel, checked under Spec *)

\* C13, as claimed: a channel is single-use for exec. An exec request is the
\* last request handled on its channel, whatever became of it, and so at most
\* one subprocess is started per channel
C13_SingleUseExec ==
    \A ch \in Chans :
        LET hist == chans[ch].hist
        IN  /\ \A i \in 1..Len(hist) : hist[i][2] = "exec" => i = Len(hist)
            /\ Cardinality({i \in 1..Len(hist) : hist[i][3]}) <= 1

\* the loop of ch takes a request in this step
Takes(ch) == Len(chans'[ch].hist) = Len(chans[ch].hist) + 1

\* C14, the order: the requests handled on a channel are the first that
\* arrived, in the order of arrival, and the queue holds the next ones in order
C14_ArrivalOrder ==
    \A ch \in Chans :
        LET hist == chans[ch].hist
            in == chans[ch].in
        IN  /\ \A i \in 1..Len(hist) : hist[i][1] = i
            /\ \A k \in 1..Len(in) : in[k].seq = Len(hist) + k
            /\ Len(hist) + Len(in) = chans[ch].arrived
            /\ chans[ch].st \in {"done", "copyout", "copyerr", "wait"} => hist # <<>>

\* C14, one at a time: a request is taken only when the handler of the one
\* before has returned and the loop is back at its head, and the step that takes
\* it on one channel leaves every other channel as it was
C14_OneAtATime ==
    \A ch \in Chans :
        Takes(ch) => /\ chans[ch].st = "idle"
                     /\ chans'[ch].hist[Len(chans'[ch].hist)][1] = Received(ch).seq
                     /\ \A d \in Chans \ {ch} : chans'[d] = chans[d]

\* C14, no blocking across channels: while an exec blocks the loop of one
\* channel, the loop of another channel that stands at its head with a request
\* waiting can take it (followed for the requests that need no parsing: shell
\* and the ignored types)
C14_OthersGoOn ==
    \A ch \in Chans, d \in Chans :
        (/\ ch # d
         /\ Bridging(ch)
         /\ chans[d].st = "idle"
         /\ chans[d].in # <<>>
         /\ Received(d).type \notin {"env", "exec"})
            => ENABLED (HandleShell(d) \/ HandleOther(d))

\* C14: within one channel the requests are handled one at a time and in the
\* order of their arrival; the channels do not wait for each other
C14_OneAtATimeInOrder ==
    [](C14_ArrivalOrder /\ C14_OthersGoOn) /\ [][C14_OneAtATime]_vars

\* an env request and then an exec request have been handled in turn on one
\* channel, whose subprocess now runs
C14_Witness ==
    \E d \in Chans :
        /\ Len(chans[d].hist) = 2
        /\ chans[d].hist[1] = <<1, "env", FALSE>>
        /\ chans[d].hist[2] = <<2, "exec", TRUE>>
        /\ Bridging(d) /\ Running(d)

\* the exec request at the head of ch's queue, parsed
Target(ch) == ParseGitCommand(execCommandName(cleanCommand(Received(ch).payload)))

\* C17, within a request: initialization runs only with auto-creation enabled,
\* on a command that parsed, after authorization (when it is asked) approved,
\* and before the subprocess is spawned; when it fails nothing is spawned and
\* nothing acknowledged
C17_InitInOrder ==
    \A ch \in Chans :
        LET log == chans[ch].log
        IN  /\ ~cfg.AutoCreate => "init" \notin Tags(log)
            /\ Count(log, "init") <= 1
            /\ "init" \in Tags(log)
                   => /\ IsExec(ch)
                      /\ "invalid" \notin Tags(log)
                      /\ ~Has(log, <<"authorise", "err">>)
                      /\ "authorise" \in Tags(log)
                             => First(log, "authorise") < First(log, "init")
                      /\ "spawn" \in Tags(log)
                             => First(log, "init") < First(log, "spawn")
            /\ Has(log, <<"init", "err">>)
                   => /\ Tags(log) \cap {"spawn", "reply", "fail"} = {}
                      /\ chans[ch].proc = NoProc
                      /\ Returned(ch)

\* C17, the repository: the step that handles an exec request initializes just
\* when the repository the command names does not exist and auto-creation is
\* enabled (and the command parsed and was not denied); the repository exists
\* after an initialization that succeeded, and no other step makes one
C17_InitWhenMissing ==
    /\ \A ch \in Chans :
           (Takes(ch) /\ Received(ch).type = "exec")
               => LET log == chans'[ch].log
                  IN  /\ "init" \in Tags(log)
                             <=> /\ cfg.AutoCreate
                                 /\ Target(ch).ok
                                 /\ ~Has(log, <<"authorise", "err">>)
                                 /\ Target(ch).Repo \notin repos
                      /\ repos' = IF Has(log, <<"init", "nil">>)
                                  THEN repos \cup {Target(ch).Repo} ELSE repos
    /\ (\A ch \in Chans : ~(Takes(ch) /\ Received(ch).type = "exec"))
           => repos' = repos

\* C17: repository initialization runs only after the command has parsed and
\* authorization has approved, only when the repository does not exist and
\* auto-creation is enabled, and before the subprocess is spawned; when it
\* fails no subprocess is spawned and nothing is acknowledged; with
\* auto-creation disabled it never runs
C17_InitBeforeSpawn == []C17_InitInOrder /\ [][C17_InitWhenMissing]_vars

\* one request has initialized its repository and started its subprocess, and
\* on another channel the initialization of a request has failed
C17_Witness ==
    \E ch \in Chans, d \in Chans :
        /\ cfg.AutoCreate
        /\ Has(chans[ch].log, <<"authorise", "nil">>)
        /\ Has(chans[ch].log, <<"init", "nil">>)
        /\ "spawn" \in Tags(chans[ch].log)
        /\ repos # {}
        /\ Has(chans[d].log, <<"init", "err">>)
        /\ Returned(d)

----------------------------------------------------------------------------
(* Claims about the payloads of requests, checked under SpecReq *)

\* the command of an exec payload with only its length prefix and the wrapping
\* quote and parenthesis characters taken off
Unwrapped(payload) == TrimLeft(SubSeq(payload, 5, Len(payload)), {"'", "(", ")"})

\* C12, as claimed: an exec request is taken whose command, unwrapped, does not
\* parse (text before the verb included): "Invalid command." is written to a
\* channel still open, the authorization collaborator is not asked, no
\* subprocess is spawned and the request is not acknowledged
C12_InvalidStep ==
    \A ch \in Chans :
        (/\ Takes(ch)
         /\ Received(ch).type = "exec"
         /\ ~ParseGitCommand(Unwrapped(Received(ch).payload)).ok)
            => /\ chans[ch].sentClose \/ Has(chans'[ch].log, <<"invalid", "">>)
               /\ Tags(chans'[ch].log) \cap {"authorise", "spawn", "reply"} = {}
               /\ chans'[ch].proc = NoProc

\* C12: see C12_InvalidStep, of every step
C12_InvalidCommandRejected == [][C12_InvalidStep]_vars

\* C15, the step that handles an env request, whatever its payload: the
\* server's environment, the connections with their session contexts, the
\* repositories and every other channel are as they were; nothing is written
\* to the channel, no reply and no close; the loop returns to its head
C15_EnvStep ==
    \A ch \in Chans :
        (Takes(ch) /\ Received(ch).type = "env")
            => /\ environ' = environ
               /\ UNCHANGED <<conns, repos, cfg, srv>>
               /\ \A d \in Chans \ {ch} : chans'[d] = chans[d]
               /\ Len(chans'[ch].log) = 2
               /\ chans'[ch].log[1][1] = "env" /\ chans'[ch].log[2][1] = "ran"
               /\ chans'[ch].sentClose = chans[ch].sentClose
               /\ chans'[ch].inClosed = chans[ch].inClosed
               /\ chans'[ch].proc = chans[ch].proc
               /\ chans'[ch].st = "done"

\* C15, afterwards: a request that follows an env request on a channel nobody
\* has closed is handled as on a fresh channel; the refused payloads are refused
C15_EnvLeavesOpen ==
    \A ch \in Chans :
        LET hist == chans[ch].hist
        IN  /\ (\A i \in 1..Len(hist) : hist[i][2] = "env")
                   => (chans[ch].sentClose => chans[ch].inClosed)
            /\ (hist # <<>> /\ hist[Len(hist)][2] = "env" /\ chans[ch].st = "done")
                   => chans[ch].log[2][2] \in {"invalid", "nil", "err"}

\* C15: handling an env request, well-formed or malformed, leaves the server's
\* environment, the session context and every other channel unchanged, sends no
\* reply and leaves the channel open for the request that follows
C15_EnvIsLocal == []C15_EnvLeavesOpen /\ [][C15_EnvStep]_vars

\* after a refused env request and on the same channel, still open, an exec
\* request has been handled and has started its subprocess
C15_Witness ==
    \E ch \in Chans :
        /\ Len(chans[ch].hist) = 2
        /\ chans[ch].hist[1][2] = "env"
        /\ chans[ch].hist[2] = <<2, "exec", TRUE>>
        /\ Has(chans[ch].log, <<"reply", "">>)
        /\ environ = GitEnviron

----------------------------------------------------------------------------
(* Claims about the session context, checked under SpecCtx *)

\* C16, the binding: the context of an established connection holds the Id and
\* name of the Identity its handshake's lookup returned and the user name
\* claimed there (the zero Identity when no lookup ran), and every subprocess
\* spawned on a channel of the connection carries that Id as GITKIT_KEY
C16_ContextBound ==
    /\ \A c \in Conns :
           Established(c) =>
               IF cfg.Auth
               THEN /\ AuthenticatedBy(c)
                    /\ conns[c].ctx.pk.Id = conns[c].perms.keyID
                    /\ conns[c].ctx.user = conns[c].perms.sshUser
                    /\ conns[c].ctx.user = conns[c].user
               ELSE conns[c].ctx = ZeroContext
    /\ \A ch \in Chans :
           \A i \in 1..Len(chans[ch].log) :
               chans[ch].log[i][1] = "spawn"
                   => /\ Established(chans[ch].conn)
                      /\ chans[ch].log[i][2] = conns[chans[ch].conn].ctx.pk.Id
                      /\ cfg.Auth => chans[ch].log[i][2] = conns[chans[ch].conn].calls[2][3]

\* C16, never mutated: no step changes the context of an established
\* connection, and no step that is not of its own handshake changes a
\* connection at all
C16_ContextFixed ==
    \A c \in Conns :
        /\ Established(c) => conns'[c] = conns[c]
        /\ (\E ch \in Chans : chans'[ch] # chans[ch]) => conns' = conns

----------------------------------------------------------------------------
(* Claims about the lifecycle, checked under SpecLife *)

\* C19, the calls: Listen with a listener set returns ErrAlreadyStarted and
\* changes nothing else, and without one it sets a new, open listener or, on
\* an error, none; Serve without a listener returns ErrNoListener and accepts
\* nothing; Stop without a listener returns nil and changes nothing else; the
\* return of Stop leaves the listener unset
C19_Calls ==
    /\ \A outcome \in {"nil", "setup", "listen"} :
           CallListen(outcome) =>
               IF srv.listener # 0
               THEN srv' = [srv EXCEPT !.ret = <<"Listen", "ErrAlreadyStarted">>]
               ELSE IF outcome = "nil"
               THEN /\ srv'.ret = <<"Listen", "nil">>
                    /\ srv'.listener # 0
                    /\ srv'.listener \notin srv'.closed
               ELSE /\ srv'.ret = <<"Listen", outcome>>
                    /\ srv'.listener = 0
    /\ (CallServe /\ srv.listener = 0)
           => /\ srv'.ret = <<"Serve", "ErrNoListener">>
              /\ srv'.serve.pc = "returned"
              /\ srv'.listener = 0
              /\ conns' = conns
    /\ (CallStop /\ srv.listener = 0)
           => srv' = [srv EXCEPT !.ret = <<"Stop", "nil">>]
    /\ StopReturn => srv'.listener = 0
    /\ srv'.listener # srv.listener
           => \/ StopReturn
              \/ srv.listener = 0 /\ CallListen("nil")

\* C19, between the calls: when the call that returned last is Stop, or a Serve
\* that found no listener, no listener is set; a listener that is set was made
\* by Listen
C19_Unset ==
    /\ (srv.ret # <<>> /\ srv.ret[1] = "Stop") => srv.listener = 0
    /\ srv.ret = <<"Serve", "ErrNoListener">> => srv.listener = 0
    /\ srv.listener \in 0..srv.made

\* C19: over the calls of Listen, Serve and Stop, Listen on a set listener
\* returns ErrAlreadyStarted and leaves it, Serve without a listener returns
\* ErrNoListener and accepts nothing, Stop without a listener is a no-op that
\* returns nil, and after Stop the listener is unset, so that Listen can
\* succeed again and Serve returns ErrNoListener
C19_Lifecycle == []C19_Unset /\ [][C19_Calls]_vars

\* after Listen, Stop and a Serve that found no listener, a second Listen has
\* set a new listener, and a third has returned ErrAlreadyStarted
C19_Witness ==
    /\ srv.made = 2
    /\ srv.listener = 2
    /\ srv.closed = {1}
    /\ srv.serve = [pc |-> "returned", l |-> 0, err |-> "ErrNoListener"]
    /\ srv.ret = <<"Listen", "ErrAlreadyStarted">>

\* C20, as claimed, Serve: it never evaluates s.listener.Accept() on a field
\* that is nil, and once Stop has closed the listener it ends by returning the
\* accept error of that listener
C20_ServeEnds ==
    /\ srv.serve.pc # "panicked"
    /\ srv.serve.pc = "accepting" => srv.serve.l # 0
    /\ (srv.serve.pc = "returned" /\ srv.serve.err # "ErrNoListener")
           => srv.serve.err = "closed"

\* C20, as claimed, the sessions: the steps of Stop leave the connections, the
\* channels and the subprocesses as they are
C20_StopLeavesSessions ==
    (CallStop \/ StopReturn) => UNCHANGED <<conns, chans, repos>>

\* C20: when Stop runs beside a running Serve, Serve ends in every
\* interleaving by returning the accept error of the closed listener and never
\* calls Accept on a nil listener field, and the connections accepted before
\* go on
C20_StopEndsServe == []C20_ServeEnds /\ [][C20_StopLeavesSessions]_vars

====
